---- MODULE Spec2Model ----
(***************************************************************************)
(* Model of the real-time data freshness subsystem of ipnet-mesh/website:  *)
(*   - the tiered node cache of app/api_client.py (memory -> upstream API  *)
(*     -> disk snapshot), and                                              *)
(*   - the MQTT-to-Socket.IO bridge of app/mqtt_client.py and the event    *)
(*     handlers of app/__init__.py.                                        *)
(* Time is counted in whole minutes.  An Optional value is a sequence:     *)
(* <<>> is Python's None and <<v>> is the value v.                         *)
(***************************************************************************)
EXTENDS Integers, Sequences, FiniteSets, TLC

\* ------------------------------------------------------------------ bounds
\* The clock runs from 0 to MaxTime minutes.
MaxTime == 6
\* An MQTT payload has at most MaxPayloadLen bytes.
MaxPayloadLen == 2
\* The clock of the concurrent get_nodes() calls runs from 0 to MaxRaceTime.
MaxRaceTime == 1

\* --------------------------------------------------------- program constants
CACHE_TTL_MINUTES == 5
FALLBACK_TTL_MINUTES == 1
HTTP_OK == 200

VARIABLES
    \* app/api_client.py
    cache,       \* the module global _cache: [nodes, last_updated, expires_at]
    disk,        \* the file CACHE_FILE: [kind, nodes]
    now,         \* datetime.utcnow(), in minutes
    lastOk,      \* history: the most recent call whose upstream fetch returned a list
    lastFb,      \* history: the most recent call that installed the disk snapshot
    last,        \* history: the most recent get_nodes() call, with the state it started in
    pc,          \* concurrent get_nodes() calls: the line each request thread is at
    loc,         \* the local variables of each request thread's call
    ghost,       \* history: which call wrote the fields of _cache, what was installed
    \* app/mqtt_client.py, app/__init__.py
    broker_host, \* MQTTClient.broker_host is configured
    started,     \* create_app has called mqtt_client.connect()
    client,      \* MQTTClient.client: "None" or "Client"
    is_connected,\* MQTTClient.is_connected
    loop,        \* the paho network loop thread is running
    link,        \* the connection as paho and the broker see it
    brokerSubs,  \* the topic filters the broker holds for this connection's session
    sessions,    \* the connected Socket.IO sessions
    requested,   \* history: the filters subscribe() has registered at the broker
    blast,       \* history: the most recent bridge operation, with the state it started in
    cb,          \* the status the running connect / disconnect callback has yet to emit
    hc,          \* the status each running handle_connect has read and yet to emit
    seen         \* the last mqtt_status each session received

raceVars == <<pc, loc, ghost>>
cacheVars == <<cache, disk, now, lastOk, lastFb, last, pc, loc, ghost>>
statusVars == <<cb, hc, seen>>
bridgeVars == <<broker_host, started, client, is_connected, loop, link, brokerSubs,
                sessions, requested, blast, cb, hc, seen>>
vars == <<cache, disk, now, lastOk, lastFb, last, pc, loc, ghost,
          broker_host, started, client, is_connected, loop, link, brokerSubs,
          sessions, requested, blast, cb, hc, seen>>

\* ------------------------------------------------------------- upstream data
\* A record of the upstream API, reduced to the fields transform_api_node
\* branches on.  "" stands for an absent or falsy string.
\*   obj  : the JSON value is an object
\*   tags : "missing" (no 'tags' key), "empty" ({}), or "dict" (non-empty object)
ApiNode(obj, tags, node_id, name) ==
    [obj |-> obj, tags |-> tags, node_id |-> node_id, name |-> name]

nScalar == ApiNode(FALSE, "missing", "", "")  \* a record that is not an object (e.g. 5)
nNoTags == ApiNode(TRUE, "missing", "", "B")  \* no tags: filtered out
nA      == ApiNode(TRUE, "dict", "A", "")     \* tags.node_id = A
nB      == ApiNode(TRUE, "dict", "", "B")     \* no tags.node_id, name = B
nAnon   == ApiNode(TRUE, "dict", "", "")      \* tags, but neither node_id nor name: filtered out

\* The 'nodes' lists upstream is made to answer with.
ApiNodeLists ==
    { <<>>, <<nNoTags>>, <<nAnon, nNoTags>>,
      <<nA>>, <<nB>>, <<nA, nB>>, <<nB, nA>>, <<nNoTags, nA, nAnon, nB>>,
      <<nScalar>>, <<nA, nScalar>> }

\* transform_api_node: <<>> for None, <<record>> otherwise.  Only called on objects.
transform_api_node(api_node) ==
    IF api_node.tags # "dict" THEN <<>>
    ELSE LET node_id == IF api_node.node_id # "" THEN api_node.node_id ELSE api_node.name
         IN  IF node_id = "" THEN <<>>
             ELSE << [id |-> node_id,
                      name |-> IF api_node.name # "" THEN api_node.name ELSE node_id] >>

\* What the HTTP GET of fetch_nodes_from_api can meet.
\*   url       : API_URL is configured
\*   transport : "ok", or "error" (requests.exceptions.RequestException: refused, timeout)
\*   status    : the HTTP status code
\*   body      : "empty"     empty or blank text
\*               "garbage"   text that is not JSON
\*               "notobject" JSON that is not an object (array, number, string, null)
\*               "error"     an object with an 'error' key
\*               "badnodes"  an object whose 'nodes' is not a list (null, number)
\*               "nodes"     an object whose 'nodes' is the list `nodes`
\*                           (an object without 'nodes' is "nodes" with <<>>)
Response(url, transport, status, body, nodes) ==
    [url |-> url, transport |-> transport, status |-> status, body |-> body, nodes |-> nodes]

NoResponse == Response(FALSE, "none", 0, "none", <<>>)

Responses ==
    { Response(FALSE, "ok", HTTP_OK, "empty", <<>>),
      Response(TRUE, "error", 0, "empty", <<>>),
      Response(TRUE, "ok", 500, "nodes", <<nA>>) }
    \cup { Response(TRUE, "ok", HTTP_OK, b, <<>>) :
             b \in {"empty", "garbage", "notobject", "error", "badnodes"} }
    \cup { Response(TRUE, "ok", HTTP_OK, "nodes", ns) : ns \in ApiNodeLists }

\* The result of a function that may raise: kind is "none" (returned None),
\* "list" (returned the list `nodes`) or "raise" (an exception left the function).
RNone == [kind |-> "none", nodes |-> <<>>]
RList(ns) == [kind |-> "list", nodes |-> ns]
RRaise == [kind |-> "raise", nodes |-> <<>>]

RECURSIVE TransformAll(_)
TransformAll(api_nodes) ==
    IF api_nodes = <<>> THEN <<>>
    ELSE transform_api_node(Head(api_nodes)) \o TransformAll(Tail(api_nodes))

fetch_nodes_from_api(r) ==
    IF ~r.url THEN RNone
    ELSE IF r.transport = "error" THEN RNone
    ELSE IF r.status # HTTP_OK THEN RNone
    ELSE IF r.body = "empty" THEN RNone
    ELSE IF r.body = "garbage" THEN RNone
    ELSE IF r.body = "notobject" THEN RRaise      \* 'error' in data / data.get: not caught
    ELSE IF r.body = "error" THEN RNone
    ELSE IF r.body = "badnodes" THEN RRaise       \* for api_node in <not iterable>
    ELSE IF \E i \in 1..Len(r.nodes) : ~r.nodes[i].obj THEN RRaise   \* api_node.get
    ELSE RList(TransformAll(r.nodes))

\* ------------------------------------------------------------ disk snapshot
\* kind: "absent", "unreadable" (open fails), "garbage" (not JSON),
\*       "notobject" (JSON, but not an object), "object" ({..., nodes: nodes})
Disk(kind, nodes) == [kind |-> kind, nodes |-> nodes]

\* save_cache: `how` is what the file system does: "ok", "openfail" (open() raises
\* IOError, the file is untouched) or "writefail" (the file was truncated by
\* open(.., 'w') and the write raised IOError).  Every IOError is caught.
SaveOutcomes == {"ok", "openfail", "writefail"}

\* Mutant of save_cache: the IOError of a failed write is not caught.
save_cache_Propagates(d, nodes, how) ==
    IF how = "ok" THEN [raised |-> FALSE, disk |-> Disk("object", nodes)]
    ELSE IF how = "openfail" THEN [raised |-> TRUE, disk |-> d]
    ELSE [raised |-> TRUE, disk |-> Disk("garbage", <<>>)]

\* The result: the file afterwards, and whether an exception left save_cache.
save_cache(d, nodes, how) ==
    IF how = "ok" THEN [raised |-> FALSE, disk |-> Disk("object", nodes)]
    ELSE IF how = "openfail" THEN [raised |-> FALSE, disk |-> d]
    ELSE [raised |-> FALSE, disk |-> Disk("garbage", <<>>)]

\* Mutant of load_cache: json.JSONDecodeError is not caught.
load_cache_NoDecodeCatch(d) ==
    IF d.kind \in {"absent", "unreadable"} THEN RList(<<>>)
    ELSE IF d.kind \in {"garbage", "notobject"} THEN RRaise
    ELSE RList(d.nodes)

load_cache(d) ==
    IF d.kind \in {"absent", "unreadable", "garbage"} THEN RList(<<>>)
    ELSE IF d.kind = "notobject" THEN RRaise      \* data.get: AttributeError, not caught
    ELSE RList(d.nodes)

\* ------------------------------------------------------------------ get_nodes
\* Mutant of MemoryValid: the clock is compared with last_updated, not expires_at.
MemoryValid_FetchTime(c, t) ==
    /\ c.last_updated # <<>>
    /\ t < c.last_updated[1]
    /\ c.nodes # <<>>

\* Line 172: the memory entry is valid.
MemoryValid(c, t) ==
    /\ c.expires_at # <<>>
    /\ t < c.expires_at[1]
    /\ c.nodes # <<>>

Returned(ns) == [kind |-> "return", nodes |-> ns]
Raised == [kind |-> "raise", nodes |-> <<>>]

Outcome(result, c, d, fc, up, rd, wr) ==
    [result |-> result, cache |-> c, disk |-> d,
     fetchCalls |-> fc,       \* calls of fetch_nodes_from_api
     upstreamCalls |-> up,    \* HTTP requests sent
     diskReads |-> rd,        \* calls of load_cache
     diskWrites |-> wr]       \* calls of save_cache

\* Mutant of FetchUsable: an empty list is installed as well.
FetchUsable_AcceptsEmpty(nodes) == nodes.kind = "list"

\* Line 180: the fetch result is installed.
FetchUsable(nodes) == nodes.kind = "list" /\ Len(nodes.nodes) > 0

\* One whole call of get_nodes() at time t, from memory entry c and disk d, with
\* upstream answering r and the file system treating a write as `how`.
get_nodes(c, d, t, r, how) ==
    IF MemoryValid(c, t) THEN Outcome(Returned(c.nodes), c, d, 0, 0, 0, 0)
    ELSE
      LET nodes == fetch_nodes_from_api(r)
          upCalls == IF r.url THEN 1 ELSE 0
      IN
      IF nodes.kind = "raise" THEN Outcome(Raised, c, d, 1, upCalls, 0, 0)
      ELSE IF FetchUsable(nodes) THEN
          LET installed == [nodes |-> nodes.nodes,
                            last_updated |-> <<t>>,
                            expires_at |-> <<t + CACHE_TTL_MINUTES>>]
              saved == save_cache(d, nodes.nodes, how)
          IN  Outcome(IF saved.raised THEN Raised ELSE Returned(nodes.nodes),
                      installed, saved.disk, 1, upCalls, 0, 1)
      ELSE
        LET cached_nodes == load_cache(d)
        IN
        IF cached_nodes.kind = "raise" THEN Outcome(Raised, c, d, 1, upCalls, 1, 0)
        ELSE IF cached_nodes.nodes # <<>> THEN
            Outcome(Returned(cached_nodes.nodes),
                    [c EXCEPT !.nodes = cached_nodes.nodes,
                              !.expires_at = <<t + FALLBACK_TTL_MINUTES>>],
                    d, 1, upCalls, 1, 0)
        ELSE Outcome(Returned(<<>>), c, d, 1, upCalls, 1, 0)

\* ------------------------------------------------------------------- history
\* A remembered call: when it ran, the records it fetched or loaded, its result.
NoMark == [set |-> FALSE, at |-> 0, nodes |-> <<>>, result |-> Returned(<<>>)]
Mark(t, ns, res) == [set |-> TRUE, at |-> t, nodes |-> ns, result |-> res]

NoCall ==
    [op |-> "none", resp |-> NoResponse, save |-> "none",
     cacheBefore |-> [nodes |-> <<>>, last_updated |-> <<>>, expires_at |-> <<>>],
     diskBefore |-> Disk("absent", <<>>),
     result |-> Returned(<<>>),
     fetchCalls |-> 0, upstreamCalls |-> 0, diskReads |-> 0, diskWrites |-> 0,
     okBefore |-> NoMark, fbBefore |-> NoMark]

\* ---------------------------------------------------------------- cache spec
recA == [id |-> "A", name |-> "A"]
recB == [id |-> "B", name |-> "B"]

\* The snapshot file the process finds at start-up: absent, damaged, or left by
\* an earlier run.
InitialDisks ==
    { Disk(k, <<>>) : k \in {"absent", "unreadable", "garbage", "notobject", "object"} }
    \cup { Disk("object", <<recB>>), Disk("object", <<recB, recA>>) }

CacheInit ==
    /\ cache = [nodes |-> <<>>, last_updated |-> <<>>, expires_at |-> <<>>]
    /\ disk \in InitialDisks
    /\ now = 0
    /\ lastOk = NoMark
    /\ lastFb = NoMark
    /\ last = NoCall

\* A request calls get_nodes(); line 169 reads the clock, which has advanced by
\* dt minutes since the previous call read it.
GetNodes ==
    \E dt \in 0..(MaxTime - now) :
      LET t == now + dt
          missed == ~MemoryValid(cache, t)
      IN
      \E r \in (IF missed THEN Responses ELSE {NoResponse}) :
        LET fetched == fetch_nodes_from_api(r)
            saves == missed /\ FetchUsable(fetched)
        IN
        \E how \in (IF saves THEN SaveOutcomes ELSE {"none"}) :
          LET out == get_nodes(cache, disk, t, r, how)
              installedFromDisk == /\ out.diskReads = 1
                                   /\ out.result.kind = "return"
                                   /\ out.result.nodes # <<>>
          IN
          /\ now' = t
          /\ cache' = out.cache
          /\ disk' = out.disk
          /\ lastOk' = IF missed /\ fetched.kind = "list" THEN Mark(t, fetched.nodes, out.result)
                       ELSE lastOk
          /\ lastFb' = IF installedFromDisk THEN Mark(t, out.cache.nodes, out.result)
                       ELSE IF out.diskWrites = 1 THEN NoMark
                       ELSE lastFb
          /\ last' = [op |-> "get_nodes", resp |-> r, save |-> how,
                      cacheBefore |-> cache, diskBefore |-> disk,
                      result |-> out.result,
                      fetchCalls |-> out.fetchCalls,
                      upstreamCalls |-> out.upstreamCalls,
                      diskReads |-> out.diskReads,
                      diskWrites |-> out.diskWrites,
                      okBefore |-> lastOk, fbBefore |-> lastFb]
          /\ UNCHANGED <<raceVars, bridgeVars>>

CacheNext == GetNodes

\* ------------------------------------------- get_nodes in concurrent requests
\* get_nodes takes no lock: the request threads of the server run it line by
\* line against the one module global _cache and the one file.
Threads == { "t1", "t2" }

\* What upstream answers while calls overlap: a failure, one record, then two.
RaceResponses ==
    { Response(TRUE, "error", 0, "empty", <<>>),
      Response(TRUE, "ok", HTTP_OK, "nodes", <<nA>>),
      Response(TRUE, "ok", HTTP_OK, "nodes", <<nA, nB>>) }

\* The call that wrote a field of _cache: its thread, where its items came
\* from ("fetch" or "disk") and the time it read at line 169.
Tag(by, src, at) == [by |-> by, src |-> src, at |-> at]
NoTag == Tag("none", "none", 0)

NoResult == [kind |-> "none", nodes |-> <<>>]

Locals(t) ==
    [now |-> t, nodes |-> RNone, cached_nodes |-> RNone, result |-> NoResult,
     checked |-> FALSE, sawNodes |-> NoTag, sawExpires |-> NoTag, retNodes |-> NoTag]

RaceInit ==
    /\ pc = [t \in Threads |-> "idle"]
    /\ loc = [t \in Threads |-> Locals(0)]
    /\ ghost = [nodesBy |-> NoTag, expiresBy |-> NoTag,
                installed |-> <<>>, writeFailed |-> FALSE]

\* Line 169: now = datetime.utcnow()
GnBegin ==
    \E t \in Threads, dt \in 0..(MaxRaceTime - now) :
        /\ pc[t] = "idle"
        /\ now' = now + dt
        /\ loc' = [loc EXCEPT ![t] = Locals(now + dt)]
        /\ pc' = [pc EXCEPT ![t] = "l172"]
        /\ UNCHANGED <<cache, disk, ghost, lastOk, lastFb, last, bridgeVars>>

\* Line 172: the validity check
GnCheck ==
    \E t \in Threads :
        /\ pc[t] = "l172"
        /\ loc' = [loc EXCEPT ![t].checked = TRUE,
                              ![t].sawNodes = ghost.nodesBy,
                              ![t].sawExpires = ghost.expiresBy]
        /\ pc' = [pc EXCEPT ![t] = IF MemoryValid(cache, loc[t].now) THEN "l174" ELSE "l178"]
        /\ UNCHANGED <<cache, disk, now, ghost, lastOk, lastFb, last, bridgeVars>>

\* Lines 174-175: cached_nodes = _cache['nodes']; return cached_nodes
GnHit ==
    \E t \in Threads :
        /\ pc[t] = "l174"
        /\ loc' = [loc EXCEPT ![t].result = Returned(cache.nodes),
                              ![t].retNodes = ghost.nodesBy]
        /\ pc' = [pc EXCEPT ![t] = "idle"]
        /\ UNCHANGED <<cache, disk, now, ghost, lastOk, lastFb, last, bridgeVars>>

\* Lines 178-180: nodes = fetch_nodes_from_api()
GnFetch ==
    \E t \in Threads, r \in RaceResponses :
        LET nodes == fetch_nodes_from_api(r)
        IN
        /\ pc[t] = "l178"
        /\ loc' = [loc EXCEPT ![t].nodes = nodes,
                              ![t].result = IF nodes.kind = "raise" THEN Raised ELSE @]
        /\ pc' = [pc EXCEPT ![t] = IF nodes.kind = "raise" THEN "idle"
                                   ELSE IF FetchUsable(nodes) THEN "l182"
                                   ELSE "l192"]
        /\ UNCHANGED <<cache, disk, now, ghost, lastOk, lastFb, last, bridgeVars>>

\* Line 182: _cache['nodes'] = nodes
GnSetNodes ==
    \E t \in Threads :
        /\ pc[t] = "l182"
        /\ cache' = [cache EXCEPT !.nodes = loc[t].nodes.nodes]
        /\ ghost' = [ghost EXCEPT !.nodesBy = Tag(t, "fetch", loc[t].now),
                                  !.installed = << loc[t].nodes.nodes >>]
        /\ pc' = [pc EXCEPT ![t] = "l183"]
        /\ UNCHANGED <<disk, now, loc, lastOk, lastFb, last, bridgeVars>>

\* Line 183: _cache['last_updated'] = now
GnSetLastUpdated ==
    \E t \in Threads :
        /\ pc[t] = "l183"
        /\ cache' = [cache EXCEPT !.last_updated = << loc[t].now >>]
        /\ pc' = [pc EXCEPT ![t] = "l184"]
        /\ UNCHANGED <<disk, now, loc, ghost, lastOk, lastFb, last, bridgeVars>>

\* Line 184: _cache['expires_at'] = now + timedelta(minutes=CACHE_TTL_MINUTES)
GnSetExpires ==
    \E t \in Threads :
        /\ pc[t] = "l184"
        /\ cache' = [cache EXCEPT !.expires_at = << loc[t].now + CACHE_TTL_MINUTES >>]
        /\ ghost' = [ghost EXCEPT !.expiresBy = Tag(t, "fetch", loc[t].now)]
        /\ pc' = [pc EXCEPT ![t] = "l187"]
        /\ UNCHANGED <<disk, now, loc, lastOk, lastFb, last, bridgeVars>>

\* Lines 187-189: save_cache(nodes); return nodes
GnSave ==
    \E t \in Threads, how \in SaveOutcomes :
        LET saved == save_cache(disk, loc[t].nodes.nodes, how)
        IN
        /\ pc[t] = "l187"
        /\ disk' = saved.disk
        /\ ghost' = [ghost EXCEPT !.writeFailed = @ \/ how # "ok"]
        /\ loc' = [loc EXCEPT ![t].result = IF saved.raised THEN Raised
                                            ELSE Returned(loc[t].nodes.nodes)]
        /\ pc' = [pc EXCEPT ![t] = "idle"]
        /\ UNCHANGED <<cache, now, lastOk, lastFb, last, bridgeVars>>

\* Lines 192-193 and 200-201: cached_nodes = load_cache()
GnLoad ==
    \E t \in Threads :
        LET cached_nodes == load_cache(disk)
        IN
        /\ pc[t] = "l192"
        /\ loc' = [loc EXCEPT ![t].cached_nodes = cached_nodes,
                              ![t].result = IF cached_nodes.kind = "raise" THEN Raised
                                            ELSE IF cached_nodes.nodes = <<>> THEN Returned(<<>>)
                                            ELSE @]
        /\ pc' = [pc EXCEPT ![t] = IF cached_nodes.kind = "list" /\ cached_nodes.nodes # <<>>
                                   THEN "l195" ELSE "idle"]
        /\ UNCHANGED <<cache, disk, now, ghost, lastOk, lastFb, last, bridgeVars>>

\* Line 195: _cache['nodes'] = cached_nodes
GnFallbackSetNodes ==
    \E t \in Threads :
        /\ pc[t] = "l195"
        /\ cache' = [cache EXCEPT !.nodes = loc[t].cached_nodes.nodes]
        /\ ghost' = [ghost EXCEPT !.nodesBy = Tag(t, "disk", loc[t].now)]
        /\ pc' = [pc EXCEPT ![t] = "l196"]
        /\ UNCHANGED <<disk, now, loc, lastOk, lastFb, last, bridgeVars>>

\* Lines 196-197: _cache['expires_at'] = now + timedelta(minutes=1); return
GnFallbackSetExpires ==
    \E t \in Threads :
        /\ pc[t] = "l196"
        /\ cache' = [cache EXCEPT !.expires_at = << loc[t].now + FALLBACK_TTL_MINUTES >>]
        /\ ghost' = [ghost EXCEPT !.expiresBy = Tag(t, "disk", loc[t].now)]
        /\ loc' = [loc EXCEPT ![t].result = Returned(loc[t].cached_nodes.nodes)]
        /\ pc' = [pc EXCEPT ![t] = "idle"]
        /\ UNCHANGED <<disk, now, lastOk, lastFb, last, bridgeVars>>

RaceNext ==
    \/ GnBegin \/ GnCheck \/ GnHit \/ GnFetch
    \/ GnSetNodes \/ GnSetLastUpdated \/ GnSetExpires \/ GnSave
    \/ GnLoad \/ GnFallbackSetNodes \/ GnFallbackSetExpires

\* ================================================== the MQTT / Socket.IO bridge
\* A topic or topic filter is the sequence of its levels: 'ipnet/+/status' is
\* <<"ipnet", "+", "status">>.  <<>> is a missing or empty topic (falsy).
NoTopic == <<>>

\* MQTTClient.default_topics, a list
default_topics ==
    << <<"ipnet", "+", "status">>,
       <<"ipnet", "+", "metrics">>,
       <<"ipnet", "network", "topology">>,
       <<"ipnet", "alerts", "+">> >>

\* The filters Socket.IO clients ask for, and the topics the broker carries.
ClientTopics == { <<"x">>, <<"ipnet", "+", "status">> }
MessageTopics == { <<"x">>, <<"ipnet", "n1", "status">> }
Sessions == { "s1", "s2" }

\* Mutant of clean_session: the client asks for a persistent session.
clean_session_Persistent == FALSE

\* mqtt.Client(client_id=..., clean_session=True): the broker drops the
\* session, and its subscriptions, when the connection ends.
clean_session == TRUE

\* The broker's matching of a topic against a filter ('+' one level, '#' the rest).
RECURSIVE Matches(_, _)
Matches(filter, topic) ==
    IF filter = <<>> THEN topic = <<>>
    ELSE IF Head(filter) = "#" THEN TRUE
    ELSE IF topic = <<>> THEN FALSE
    ELSE /\ Head(filter) \in {"+", Head(topic)}
         /\ Matches(Tail(filter), Tail(topic))

\* ------------------------------------------------------------------ payloads
\* A payload is a sequence of bytes, here over '1' (49), 'x' (120) and the two
\* bytes of the UTF-8 encoding of U+00E9 (195, 169).
PayloadBytes == { 49, 120, 195, 169 }

RECURSIVE SeqsUpTo(_, _)
SeqsUpTo(S, n) ==
    IF n = 0 THEN { <<>> }
    ELSE LET shorter == SeqsUpTo(S, n - 1)
         IN  shorter \cup { Append(q, x) : q \in { t \in shorter : Len(t) = n - 1 }, x \in S }

Payloads == SeqsUpTo(PayloadBytes, MaxPayloadLen)

\* bytes.decode('utf-8') for one- and two-byte sequences: the text (a sequence
\* of code points), or ok = FALSE for UnicodeDecodeError.
RECURSIVE Utf8Decode(_)
Utf8Decode(bs) ==
    IF bs = <<>> THEN [ok |-> TRUE, text |-> <<>>]
    ELSE LET b == Head(bs) IN
         IF b < 128 THEN
             LET rest == Utf8Decode(Tail(bs))
             IN  [ok |-> rest.ok, text |-> IF rest.ok THEN <<b>> \o rest.text ELSE <<>>]
         ELSE IF b >= 194 /\ b <= 223 /\ Len(bs) >= 2 /\ bs[2] >= 128 /\ bs[2] <= 191 THEN
             LET rest == Utf8Decode(Tail(Tail(bs)))
                 cp == (b - 192) * 64 + (bs[2] - 128)
             IN  [ok |-> rest.ok, text |-> IF rest.ok THEN <<cp>> \o rest.text ELSE <<>>]
         ELSE [ok |-> FALSE, text |-> <<>>]

\* The value carried by an event's data: a decoded JSON number or a string.
JsonNumber(n) == [kind |-> "json", num |-> n, text |-> <<>>]
RawText(t) == [kind |-> "text", num |-> 0, text |-> t]
NoData == [kind |-> "none", num |-> 0, text |-> <<>>]

IsDigit(c) == c >= 48 /\ c <= 57

RECURSIVE DigitsValue(_)
DigitsValue(text) ==
    IF text = <<>> THEN 0
    ELSE 10 * DigitsValue(SubSeq(text, 1, Len(text) - 1)) + (text[Len(text)] - 48)

\* Mutant of JsonLoads: every payload is taken as not JSON.
JsonLoads_NeverJson(text) == [ok |-> FALSE, value |-> NoData]

\* json.loads on a text over the alphabet above: the JSON documents among these
\* texts are the integers without a leading zero; any other text raises
\* json.JSONDecodeError (ok = FALSE).
JsonLoads(text) ==
    IF /\ text # <<>>
       /\ \A i \in 1..Len(text) : IsDigit(text[i])
       /\ (Len(text) > 1 => text[1] # 48)
    THEN [ok |-> TRUE, value |-> JsonNumber(DigitsValue(text))]
    ELSE [ok |-> FALSE, value |-> NoData]

\* -------------------------------------------------------------------- events
\* What socketio.emit sends: the event name, its fields, and the sessions it is
\* delivered to.  The handlers call the server-level socketio.emit without a
\* recipient, which addresses every connected session.
Event(name, topic, data, flag, error, to) ==
    [name |-> name, topic |-> topic, data |-> data, flag |-> flag, error |-> error, to |-> to]

StatusEvent(connected, error, to) == Event("mqtt_status", NoTopic, NoData, connected, error, to)
\* The event's timestamp field is left out.
MessageEvent(topic, data, to) == Event("mqtt_message", topic, data, FALSE, 0, to)
ResultEvent(name, topic, success, to) == Event(name, topic, NoData, success, 0, to)

\* A call of the paho client: client.subscribe(topic), client.publish(topic, ..) ...
ClientCall(fn, topic) == [fn |-> fn, topic |-> topic]

\* What the paho client answers to publish / subscribe / unsubscribe:
\* MQTT_ERR_SUCCESS, another return code, or an exception.
ClientOutcomes == { "ok", "fail", "raise" }

\* ---------------------------------------------------------------- MQTTClient
\* The not-connected guard of publish, subscribe and unsubscribe.
NotConnected(cl, conn) == cl = "None" \/ ~conn

\* Mutant of subscribe: only self.client is checked.
subscribe_NoConnectedCheck(cl, conn, topic, out) ==
    IF cl = "None" THEN [ret |-> FALSE, calls |-> <<>>]
    ELSE [ret |-> out = "ok", calls |-> <<ClientCall("subscribe", topic)>>]

\* MQTTClient.publish: the value returned and the calls made on the paho client.
publish(cl, conn, topic, out) ==
    IF NotConnected(cl, conn) THEN [ret |-> FALSE, calls |-> <<>>]
    ELSE [ret |-> out = "ok", calls |-> <<ClientCall("publish", topic)>>]

\* MQTTClient.subscribe
subscribe(cl, conn, topic, out) ==
    IF NotConnected(cl, conn) THEN [ret |-> FALSE, calls |-> <<>>]
    ELSE [ret |-> out = "ok", calls |-> <<ClientCall("subscribe", topic)>>]

\* MQTTClient.unsubscribe
unsubscribe(cl, conn, topic, out) ==
    IF NotConnected(cl, conn) THEN [ret |-> FALSE, calls |-> <<>>]
    ELSE [ret |-> out = "ok", calls |-> <<ClientCall("unsubscribe", topic)>>]

\* The broker's subscription set after the calls `calls` were answered `out`:
\* a call reaches the broker only over an established connection.
RECURSIVE ApplyCalls(_, _, _)
ApplyCalls(subs, calls, lnk) ==
    IF calls = <<>> \/ lnk # "up" THEN subs
    ELSE LET c == Head(calls)
             next == IF c.fn = "subscribe" THEN subs \cup {c.topic}
                     ELSE IF c.fn = "unsubscribe" THEN subs \ {c.topic}
                     ELSE subs
         IN  ApplyCalls(next, Tail(calls), lnk)

\* _on_connect, lines 52-54: client.subscribe(topic) for each default topic, in
\* the order of the list.
on_connect_calls(rc) ==
    IF rc = 0
    THEN [i \in 1..Len(default_topics) |-> ClientCall("subscribe", default_topics[i])]
    ELSE <<>>

\* Mutant of on_connect: every CONNACK is taken as a success.
on_connect_IgnoresRc(rc, to) ==
    [is_connected |-> TRUE, calls |-> on_connect_calls(rc),
     emits |-> << StatusEvent(TRUE, 0, to) >>]

\* _on_connect: the new is_connected, the calls on the paho client and the
\* event broadcast.
on_connect(rc, to) ==
    [is_connected |-> (rc = 0), calls |-> on_connect_calls(rc),
     emits |-> << StatusEvent(rc = 0, rc, to) >>]

\* Mutant of on_message: the event is emitted twice.
on_message_Twice(topic, payload, emitOk, to) ==
    LET decoded == Utf8Decode(payload)
        parsed == JsonLoads(decoded.text)
        data == IF parsed.ok THEN parsed.value ELSE RawText(decoded.text)
    IN  IF ~decoded.ok THEN <<>>
        ELSE IF ~emitOk THEN <<>>
        ELSE << MessageEvent(topic, data, to), MessageEvent(topic, data, to) >>

\* _on_message: the events emitted for one inbound message.  emitOk = FALSE is
\* socketio.emit raising; like UnicodeDecodeError it is caught at line 94.
on_message(topic, payload, emitOk, to) ==
    LET decoded == Utf8Decode(payload)
        parsed == JsonLoads(decoded.text)
        data == IF parsed.ok THEN parsed.value ELSE RawText(decoded.text)
    IN  IF ~decoded.ok THEN <<>>
        ELSE IF ~emitOk THEN <<>>
        ELSE << MessageEvent(topic, data, to) >>

\* Mutant of on_message_escapes: the handler has no `except Exception`.
on_message_escapes_NoExcept(payload, emitOk) == ~Utf8Decode(payload).ok \/ ~emitOk

\* _on_message, lines 94-95: UnicodeDecodeError and an exception of
\* socketio.emit are Exceptions and are caught; nothing leaves the callback.
on_message_escapes(payload, emitOk) == FALSE

\* ------------------------------------------------------------------- history
BOp(op, sid, topic, payload, rc, emitOk, ret, calls, emits) ==
    [op |-> op, sid |-> sid, topic |-> topic, payload |-> payload, rc |-> rc,
     emitOk |-> emitOk, ret |-> ret, calls |-> calls, emits |-> emits,
     connectedBefore |-> is_connected, clientBefore |-> client,
     subsBefore |-> brokerSubs, requestedBefore |-> requested,
     loopBefore |-> loop, sessionsBefore |-> sessions,
     raised |-> FALSE, how |-> "ok",
     prevFailed |-> (blast.op = "on_message" /\ blast.emits = <<>>),
     lastCallback |-> IF op = "on_connect" THEN (IF rc = 0 THEN "connack_ok" ELSE "connack_fail")
                      ELSE IF op = "on_disconnect" THEN "disconnect"
                      ELSE blast.lastCallback]

\* --------------------------------------------------------------- bridge spec
BridgeInit ==
    /\ broker_host \in BOOLEAN
    /\ started = FALSE
    /\ client = "None"
    /\ is_connected = FALSE
    /\ loop = FALSE
    /\ link = "idle"
    /\ brokerSubs = {}
    /\ sessions = {}
    /\ requested = {}
    /\ blast = [op |-> "none", sid |-> "", topic |-> NoTopic, payload |-> <<>>, rc |-> 0,
                emitOk |-> TRUE, ret |-> FALSE, calls |-> <<>>, emits |-> <<>>,
                connectedBefore |-> FALSE, clientBefore |-> "None",
                subsBefore |-> {}, requestedBefore |-> {},
                loopBefore |-> FALSE, sessionsBefore |-> {},
                raised |-> FALSE, how |-> "ok", prevFailed |-> FALSE,
                lastCallback |-> "none"]

\* create_app, line 152: MQTTClient.connect().  `how`: "ok", "raise_new"
\* (mqtt.Client(..) raises) or "raise" (TLS set-up or client.connect raises).
ConnectOutcomes == { "ok", "raise_new", "raise" }

\* Mutant of connect: the try of line 103 has no except.
connect_NoExcept(host, cl, how) ==
    IF ~host THEN [raised |-> FALSE, ret |-> FALSE, client |-> cl, loop |-> FALSE]
    ELSE [raised |-> how # "ok", ret |-> how = "ok",
          client |-> IF how = "raise_new" THEN cl ELSE "Client", loop |-> how = "ok"]

\* MQTTClient.connect: whether it raised, the value returned, self.client and
\* whether loop_start() was reached.
connect(host, cl, how) ==
    IF ~host THEN [raised |-> FALSE, ret |-> FALSE, client |-> cl, loop |-> FALSE]
    ELSE [raised |-> FALSE, ret |-> how = "ok",
          client |-> IF how = "raise_new" THEN cl ELSE "Client", loop |-> how = "ok"]

Connect ==
    /\ ~started
    /\ started' = TRUE
    /\ \E how \in ConnectOutcomes :
         LET r == connect(broker_host, client, how)
         IN
         /\ client' = r.client
         /\ loop' = r.loop
         /\ link' = IF r.loop THEN "connecting" ELSE link
         /\ blast' = [BOp("connect", "", NoTopic, <<>>, 0, TRUE, r.ret, <<>>, <<>>)
                         EXCEPT !.raised = r.raised, !.how = how]
    /\ UNCHANGED <<cacheVars, statusVars, broker_host, is_connected, brokerSubs, sessions, requested>>

\* The loop thread receives CONNACK with return code rc: _on_connect.
ConnAck ==
    /\ loop /\ link = "connecting"
    /\ \E rc \in {0, 5} :
         LET r == on_connect(rc, sessions)
         IN
         /\ is_connected' = r.is_connected
         /\ link' = IF rc = 0 THEN "up" ELSE "refused"
         /\ brokerSubs' = ApplyCalls(brokerSubs, r.calls, link')
         /\ blast' = BOp("on_connect", "", NoTopic, <<>>, rc, TRUE, FALSE, r.calls, r.emits)
    /\ UNCHANGED <<cacheVars, statusVars, broker_host, started, client, loop, sessions, requested>>

\* The connection breaks; the callback has not run yet.
ConnectionLost ==
    /\ loop /\ link \in {"connecting", "up"}
    /\ link' = "lost"
    /\ brokerSubs' = IF clean_session THEN {} ELSE brokerSubs
    /\ blast' = BOp("connection_lost", "", NoTopic, <<>>, 0, TRUE, FALSE, <<>>, <<>>)
    /\ UNCHANGED <<cacheVars, statusVars, broker_host, started, client, is_connected, loop, sessions, requested>>

\* _on_disconnect: run by the loop thread when the connection has ended, or
\* inside client.disconnect() ("closing").
OnDisconnect ==
    /\ (loop /\ link \in {"lost", "refused"}) \/ link = "closing"
    /\ is_connected' = FALSE
    /\ link' = IF link = "closing" THEN "closed" ELSE "down"
    /\ blast' = BOp("on_disconnect", "", NoTopic, <<>>, 0, TRUE, FALSE, <<>>,
                    << StatusEvent(FALSE, 0, sessions) >>)
    /\ UNCHANGED <<cacheVars, statusVars, broker_host, started, client, loop, brokerSubs, sessions, requested>>

\* The loop thread of loop_start() connects again.
Reconnect ==
    /\ loop /\ link = "down"
    /\ link' = "connecting"
    /\ blast' = BOp("reconnect", "", NoTopic, <<>>, 0, TRUE, FALSE, <<>>, <<>>)
    /\ UNCHANGED <<cacheVars, statusVars, broker_host, started, client, is_connected, loop, brokerSubs,
                   sessions, requested>>

\* The broker delivers a message on a topic a held filter matches: _on_message.
Message ==
    /\ loop /\ link = "up"
    /\ \E topic \in MessageTopics, payload \in Payloads, emitOk \in BOOLEAN :
         /\ \E f \in brokerSubs : Matches(f, topic)
         /\ blast' = [BOp("on_message", "", topic, payload, 0, emitOk, FALSE, <<>>,
                          on_message(topic, payload, emitOk, sessions))
                         EXCEPT !.raised = on_message_escapes(payload, emitOk)]
         \* an exception leaving the callback ends the loop thread
         /\ loop' = (loop /\ ~on_message_escapes(payload, emitOk))
    /\ UNCHANGED <<cacheVars, statusVars, broker_host, started, client, is_connected, link, brokerSubs,
                   sessions, requested>>

\* A caller of the public methods of MQTTClient.
CallPublish ==
    \E topic \in ClientTopics, out \in ClientOutcomes :
        LET r == publish(client, is_connected, topic, out)
        IN  /\ blast' = BOp("publish", "", topic, <<>>, 0, TRUE, r.ret, r.calls, <<>>)
            /\ UNCHANGED <<cacheVars, statusVars, broker_host, started, client, is_connected, loop, link,
                           brokerSubs, sessions, requested>>

CallSubscribe ==
    \E topic \in ClientTopics, out \in ClientOutcomes :
        LET r == subscribe(client, is_connected, topic, out)
        IN  /\ brokerSubs' = IF r.ret THEN ApplyCalls(brokerSubs, r.calls, link)
                             ELSE brokerSubs
            /\ requested' = IF r.ret /\ link = "up" THEN requested \cup {topic}
                            ELSE requested
            /\ blast' = BOp("subscribe", "", topic, <<>>, 0, TRUE, r.ret, r.calls, <<>>)
            /\ UNCHANGED <<cacheVars, statusVars, broker_host, started, client, is_connected, loop, link, sessions>>

CallUnsubscribe ==
    \E topic \in ClientTopics, out \in ClientOutcomes :
        LET r == unsubscribe(client, is_connected, topic, out)
        IN  /\ brokerSubs' = IF r.ret THEN ApplyCalls(brokerSubs, r.calls, link)
                             ELSE brokerSubs
            /\ blast' = BOp("unsubscribe", "", topic, <<>>, 0, TRUE, r.ret, r.calls, <<>>)
            /\ UNCHANGED <<cacheVars, statusVars, broker_host, started, client, is_connected, loop, link,
                           sessions, requested>>

\* What follows client.disconnect() once loop_stop() has ended the loop thread:
\* "callback" when the client library, writing DISCONNECT in the caller's
\* thread, runs _on_disconnect there; "silent" when the packet cannot be
\* written at once and no thread is left to run the callback.
DisconnectOutcomes == { "callback", "silent" }

\* MQTTClient.disconnect, lines 145-147: whether loop_stop() and
\* client.disconnect() were called, and the loop thread afterwards.
disconnect(cl, conn, lp) ==
    IF cl = "None" \/ ~conn THEN [acted |-> FALSE, loop |-> lp]
    ELSE [acted |-> TRUE, loop |-> FALSE]

\* A caller of MQTTClient.disconnect().
CallDisconnect ==
    /\ started
    /\ \E how \in DisconnectOutcomes :
         LET r == disconnect(client, is_connected, loop)
         IN
         /\ loop' = r.loop
         /\ link' = IF ~r.acted THEN link
                    ELSE IF how = "callback" THEN "closing" ELSE "closed"
         /\ brokerSubs' = IF r.acted /\ clean_session THEN {} ELSE brokerSubs
         /\ blast' = [BOp("disconnect", "", NoTopic, <<>>, 0, TRUE, r.acted, <<>>, <<>>)
                         EXCEPT !.how = how]
    /\ UNCHANGED <<cacheVars, statusVars, broker_host, started, client, is_connected, sessions, requested>>

\* handle_connect: a new Socket.IO session.
SessionConnect ==
    /\ started
    /\ \E sid \in Sessions \ sessions :
         /\ sessions' = sessions \cup {sid}
         /\ blast' = BOp("connect_session", sid, NoTopic, <<>>, 0, TRUE, FALSE, <<>>,
                         << StatusEvent(is_connected, 0, sessions') >>)
    /\ UNCHANGED <<cacheVars, statusVars, broker_host, started, client, is_connected, loop, link, brokerSubs,
                   requested>>

\* handle_disconnect
SessionDisconnect ==
    /\ \E sid \in sessions :
         /\ sessions' = sessions \ {sid}
         /\ blast' = BOp("disconnect_session", sid, NoTopic, <<>>, 0, TRUE, FALSE, <<>>, <<>>)
    /\ UNCHANGED <<cacheVars, statusVars, broker_host, started, client, is_connected, loop, link, brokerSubs,
                   requested>>

\* The guard of the three command handlers: `topic and mqtt_client and
\* mqtt_client.is_connected` (mqtt_client is set once create_app has run).
CommandAccepted(topic, conn) == topic # NoTopic /\ conn

\* handle_mqtt_subscribe: the command mqtt_subscribe {topic} of session sid.
HandleMqttSubscribe ==
    \E sid \in sessions, topic \in ClientTopics \cup {NoTopic}, out \in ClientOutcomes :
        LET r == subscribe(client, is_connected, topic, out)
            ok == CommandAccepted(topic, is_connected)
        IN  /\ brokerSubs' = IF ok /\ r.ret THEN ApplyCalls(brokerSubs, r.calls, link)
                             ELSE brokerSubs
            /\ requested' = IF ok /\ r.ret /\ link = "up" THEN requested \cup {topic}
                            ELSE requested
            /\ blast' = BOp("mqtt_subscribe", sid, topic, <<>>, 0, TRUE,
                            ok /\ r.ret,
                            IF ok THEN r.calls ELSE <<>>,
                            IF ok THEN << ResultEvent("mqtt_subscribe_result", topic,
                                                      r.ret, sessions) >>
                                  ELSE <<>>)
            /\ UNCHANGED <<cacheVars, statusVars, broker_host, started, client, is_connected, loop, link, sessions>>

\* handle_mqtt_unsubscribe
HandleMqttUnsubscribe ==
    \E sid \in sessions, topic \in ClientTopics \cup {NoTopic}, out \in ClientOutcomes :
        LET r == unsubscribe(client, is_connected, topic, out)
            ok == CommandAccepted(topic, is_connected)
        IN  /\ brokerSubs' = IF ok /\ r.ret THEN ApplyCalls(brokerSubs, r.calls, link)
                             ELSE brokerSubs
            /\ blast' = BOp("mqtt_unsubscribe", sid, topic, <<>>, 0, TRUE,
                            ok /\ r.ret,
                            IF ok THEN r.calls ELSE <<>>,
                            IF ok THEN << ResultEvent("mqtt_unsubscribe_result", topic,
                                                      r.ret, sessions) >>
                                  ELSE <<>>)
            /\ UNCHANGED <<cacheVars, statusVars, broker_host, started, client, is_connected, loop, link,
                           sessions, requested>>

\* handle_mqtt_publish (payload, qos and retain are passed through unchanged)
HandleMqttPublish ==
    \E sid \in sessions, topic \in ClientTopics \cup {NoTopic}, out \in ClientOutcomes :
        LET r == publish(client, is_connected, topic, out)
            ok == CommandAccepted(topic, is_connected)
        IN  /\ blast' = BOp("mqtt_publish", sid, topic, <<>>, 0, TRUE,
                            ok /\ r.ret,
                            IF ok THEN r.calls ELSE <<>>,
                            IF ok THEN << ResultEvent("mqtt_publish_result", topic,
                                                      r.ret, sessions) >>
                                  ELSE <<>>)
            /\ UNCHANGED <<cacheVars, statusVars, broker_host, started, client, is_connected, loop, link,
                           brokerSubs, sessions, requested>>

\* ------------------------------------- status events, statement by statement
\* The callbacks run on the loop thread, handle_connect on a request thread of
\* its own: each reads or writes is_connected in one statement and emits in
\* another.  <<>> is "nothing to emit"; <<b>> is the status b.
StatusInit ==
    /\ cb = <<>>
    /\ hc = [s \in Sessions |-> <<>>]
    /\ seen = [s \in Sessions |-> <<>>]

\* socketio.emit('mqtt_status', {'connected': b}) without a recipient: every
\* connected session receives it.
Deliver(sn, to, b) == [s \in Sessions |-> IF s \in to THEN <<b>> ELSE sn[s]]

\* _on_connect, lines 47-54 and 60-61: is_connected is written.
StOnConnectSet ==
    /\ loop /\ link = "connecting" /\ cb = <<>>
    /\ \E rc \in {0, 5} :
         LET r == on_connect(rc, sessions)
         IN
         /\ is_connected' = r.is_connected
         /\ link' = IF rc = 0 THEN "up" ELSE "refused"
         /\ brokerSubs' = ApplyCalls(brokerSubs, r.calls, link')
         /\ cb' = << r.is_connected >>
    /\ UNCHANGED <<cacheVars, broker_host, started, client, loop, sessions, requested, blast,
                   hc, seen>>

\* _on_disconnect, line 68: is_connected is written.
StOnDisconnectSet ==
    /\ loop /\ link \in {"lost", "refused"} /\ cb = <<>>
    /\ is_connected' = FALSE
    /\ link' = "down"
    /\ cb' = << FALSE >>
    /\ UNCHANGED <<cacheVars, broker_host, started, client, loop, brokerSubs, sessions,
                   requested, blast, hc, seen>>

\* Lines 58, 63 and 70: the callback emits the status it has set.
StCallbackEmit ==
    /\ cb # <<>>
    /\ seen' = Deliver(seen, sessions, cb[1])
    /\ cb' = <<>>
    /\ UNCHANGED <<cacheVars, broker_host, started, client, is_connected, loop, link,
                   brokerSubs, sessions, requested, blast, hc>>

\* handle_connect, line 114: the argument mqtt_client.is_connected is read.
StHandleConnectRead ==
    /\ started
    /\ \E sid \in Sessions \ sessions :
         /\ hc[sid] = <<>>
         /\ sessions' = sessions \cup {sid}
         /\ hc' = [hc EXCEPT ![sid] = << is_connected >>]
         /\ seen' = [seen EXCEPT ![sid] = <<>>]
    /\ UNCHANGED <<cacheVars, broker_host, started, client, is_connected, loop, link,
                   brokerSubs, requested, blast, cb>>

\* handle_connect, line 114: socketio.emit sends the status that was read.
StHandleConnectEmit ==
    /\ \E sid \in Sessions :
         /\ hc[sid] # <<>>
         /\ seen' = Deliver(seen, sessions, hc[sid][1])
         /\ hc' = [hc EXCEPT ![sid] = <<>>]
    /\ UNCHANGED <<cacheVars, broker_host, started, client, is_connected, loop, link,
                   brokerSubs, sessions, requested, blast, cb>>

StatusNext ==
    \/ Connect \/ ConnectionLost \/ Reconnect \/ SessionDisconnect
    \/ StOnConnectSet \/ StOnDisconnectSet \/ StCallbackEmit
    \/ StHandleConnectRead \/ StHandleConnectEmit

BridgeNext ==
    \/ Connect \/ ConnAck \/ ConnectionLost \/ OnDisconnect \/ Reconnect \/ Message
    \/ CallPublish \/ CallSubscribe \/ CallUnsubscribe \/ CallDisconnect
    \/ SessionConnect \/ SessionDisconnect
    \/ HandleMqttSubscribe \/ HandleMqttUnsubscribe \/ HandleMqttPublish

Init == CacheInit /\ RaceInit /\ BridgeInit /\ StatusInit

Next == CacheNext \/ RaceNext \/ BridgeNext \/ StatusNext

\* The two parts share no state: each is explored with the other at rest, in
\* one of its initial states.
CacheSpecInit == Init /\ broker_host
BridgeSpecInit == Init /\ disk.kind = "absent"

\* The concurrent calls start from a snapshot file left by an earlier run.
RaceSpecInit == Init /\ broker_host /\ disk = Disk("object", <<recB>>)

CacheSpec == CacheSpecInit /\ [][CacheNext]_vars

RaceSpec == RaceSpecInit /\ [][RaceNext]_vars

BridgeSpec == BridgeSpecInit /\ [][BridgeNext]_vars

StatusSpec == BridgeSpecInit /\ [][StatusNext]_vars

Spec == Init /\ [][Next]_vars

\* ===================================================== claims on the node cache
\* The vocabulary of the claims, stated on the shape of the upstream response
\* and of the snapshot file.
IsCall == last.op = "get_nodes"
Missed == ~MemoryValid(last.cacheBefore, now)

\* Status 200 and a body {nodes: [...]} whose records are all objects.
UpstreamWellFormed(r) ==
    /\ r.url /\ r.transport = "ok" /\ r.status = HTTP_OK /\ r.body = "nodes"
    /\ \A i \in 1..Len(r.nodes) : r.nodes[i].obj
\* A record survives the data-quality filter: it has tags and an identity.
Kept(n) == n.tags = "dict" /\ (n.node_id # "" \/ n.name # "")
NumKept(r) == Cardinality({ i \in 1..Len(r.nodes) : Kept(r.nodes[i]) })
\* Every upstream outcome other than a well-formed 200 answer.
UpstreamFailed(r) == ~UpstreamWellFormed(r)
\* The failures fetch_nodes_from_api reports by returning None.
UpstreamReportedFailure(r) ==
    \/ ~r.url
    \/ r.transport = "error"
    \/ r.status # HTTP_OK
    \/ r.body \in {"empty", "garbage", "error"}
\* The snapshot gives no record: absent, unreadable, unparseable, or no nodes.
SnapshotHasNoRecords(d) ==
    \/ d.kind \in {"absent", "unreadable", "garbage"}
    \/ d.kind = "object" /\ d.nodes = <<>>
SnapshotHasRecords(d) == d.kind = "object" /\ Len(d.nodes) >= 1

\* C1: get_nodes() never raises and always returns a list, whatever upstream
\* answers and whatever state the snapshot file is in.
C1_NeverRaises == IsCall => last.result.kind = "return"

\* C2 (as claimed): after a call that fetched successfully at time t (a
\* well-formed answer, also one with no usable record), every later call
\* before t + normalTTL returns what that call returned, with no upstream call,
\* no disk read or write, and the memory entry unchanged.
ServedFromMemory(mark) ==
    /\ last.result = mark.result
    /\ last.fetchCalls = 0 /\ last.upstreamCalls = 0
    /\ last.diskReads = 0 /\ last.diskWrites = 0
    /\ cache = last.cacheBefore
    /\ disk = last.diskBefore

C3_FallbackOnFailure ==
    /\ (IsCall /\ Missed /\ UpstreamFailed(last.resp) /\ SnapshotHasRecords(last.diskBefore))
          => /\ last.result = Returned(last.diskBefore.nodes)
             /\ cache.nodes = last.diskBefore.nodes
             /\ cache.expires_at = <<now + FALLBACK_TTL_MINUTES>>
             /\ FALLBACK_TTL_MINUTES < CACHE_TTL_MINUTES
    /\ (IsCall /\ last.fbBefore.set /\ now >= last.fbBefore.at + FALLBACK_TTL_MINUTES)
          => last.fetchCalls = 1

\* C4 (as claimed): a well-formed answer with no usable record is a successful
\* fetch: the empty collection is installed with expires_at = now + normalTTL,
\* persisted, returned, and the snapshot is not read.
EmptySuccess == IsCall /\ Missed /\ UpstreamWellFormed(last.resp) /\ NumKept(last.resp) = 0

NothingAvailable ==
    /\ Missed
    /\ \/ UpstreamReportedFailure(last.resp)
       \/ UpstreamWellFormed(last.resp) /\ NumKept(last.resp) = 0
    /\ SnapshotHasNoRecords(last.diskBefore)

SaveFailed == last.save \in {"openfail", "writefail"}

C6_SaveFailureHarmless ==
    (/\ IsCall /\ Missed /\ SaveFailed
     /\ UpstreamWellFormed(last.resp)
     /\ last.resp.nodes \in { <<nA, nB>>, <<nNoTags, nA, nAnon, nB>> })
        => /\ last.result = Returned(<<recA, recB>>)
           /\ cache.nodes = <<recA, recB>>
           /\ cache.expires_at = <<now + CACHE_TTL_MINUTES>>

C6_Witness ==
    /\ IsCall /\ Missed /\ last.save = "writefail"
    /\ last.resp.nodes = <<nA, nB>>
    /\ last.result = Returned(<<recA, recB>>)
    /\ last.diskBefore = Disk("object", <<recB>>)
    /\ disk.kind = "garbage"

\* ------------------------------------------- claims on concurrent get_nodes
NoCallInProgress == \A t \in Threads : pc[t] = "idle"

\* C18: whenever no call is in progress and no write has failed, the disk
\* snapshot holds the items of the most recent successful fetch installed in
\* memory.
C18_DiskHoldsLatestFetch ==
    (NoCallInProgress /\ ~ghost.writeFailed /\ ghost.installed # <<>>)
        => disk = Disk("object", ghost.installed[1])

\* The entry was installed by the disk-snapshot fallback (sequential calls).
InstalledByFallback == lastFb.set

\* C19: once the in-memory entry is populated, expires_at = last_updated + the
\* TTL it was installed under: CACHE_TTL_MINUTES after a successful fetch,
\* FALLBACK_TTL_MINUTES after a disk-snapshot fallback.
C19_ExpiryIsFetchTimePlusTTL ==
    cache.expires_at # <<>>
        => /\ cache.last_updated # <<>>
           /\ cache.expires_at[1] = cache.last_updated[1]
                  + (IF InstalledByFallback THEN FALLBACK_TTL_MINUTES ELSE CACHE_TTL_MINUTES)

\* C20: the entry is replaced as a whole: the items and the expiry a call
\* reads at its validity check were written by the same call; items loaded
\* from the disk snapshot are never valid under an expiry of now + the normal
\* TTL; and the items a call returns from memory are those it checked.
C20_EntryReplacedWhole ==
    /\ \A t \in Threads :
          (loc[t].checked /\ loc[t].sawNodes # NoTag /\ loc[t].sawExpires # NoTag)
              => loc[t].sawNodes = loc[t].sawExpires
    /\ ~(/\ ghost.nodesBy.src = "disk"
         /\ ghost.expiresBy.src = "fetch"
         /\ MemoryValid(cache, now))
    /\ \A t \in Threads :
          loc[t].retNodes # NoTag => loc[t].retNodes = loc[t].sawNodes

\* The memory entry was written whole by one successful fetch and is within
\* its TTL.
FreshEntry ==
    /\ ghost.nodesBy.src = "fetch"
    /\ ghost.expiresBy = ghost.nodesBy
    /\ MemoryValid(cache, now)

\* C21: while the entry installed from a successful fetch is within its TTL,
\* no call whose own fetch failed replaces its items with other items loaded
\* from the disk snapshot.
C21_NoRegressToSnapshot ==
    [][ FreshEntry => ~(ghost'.nodesBy.src = "disk" /\ cache'.nodes # cache.nodes) ]_vars

\* ========================================================= claims on the bridge
DefaultTopicSet == { default_topics[i] : i \in 1..Len(default_topics) }

\* C7: while is_connected is false, publish, subscribe and unsubscribe return
\* false, make no call on the broker client and leave is_connected unchanged.
C7_NotConnectedGuard ==
    (blast.op \in {"publish", "subscribe", "unsubscribe"} /\ ~blast.connectedBefore)
        => /\ blast.ret = FALSE
           /\ blast.calls = <<>>
           /\ is_connected = blast.connectedBefore
           /\ brokerSubs = blast.subsBefore

\* A subscribe() after a disconnect callback, on a client that had been connected.
C7_Witness ==
    /\ blast.op = "subscribe" /\ ~blast.connectedBefore
    /\ blast.clientBefore = "Client"
    /\ link = "down"
    /\ requested # {}
    /\ blast.ret = FALSE

\* C8: after every successful connect callback every default topic filter is
\* subscribed at the broker, and a filter added through subscribe() on an
\* earlier connection is not, unless it is a default topic.
C8_DefaultsResubscribed ==
    (blast.op = "on_connect" /\ blast.rc = 0)
        => /\ DefaultTopicSet \subseteq brokerSubs
           /\ \A f \in blast.requestedBefore \ DefaultTopicSet : f \notin brokerSubs

\* A reconnect after <<"x">> had been subscribed on the connection before.
C8_Witness ==
    /\ blast.op = "on_connect" /\ blast.rc = 0
    /\ <<"x">> \in blast.requestedBefore
    /\ brokerSubs = DefaultTopicSet
    /\ is_connected

\* The data the claim expects for a payload: the decoded JSON value when the
\* text is JSON, the text itself otherwise.
ExpectedData(payload) ==
    LET text == Utf8Decode(payload).text
    IN  IF JsonLoads(text).ok THEN JsonLoads(text).value ELSE RawText(text)

OneMessageEvent ==
    /\ Len(blast.emits) = 1
    /\ blast.emits[1].name = "mqtt_message"
    /\ blast.emits[1].topic = blast.topic
    /\ blast.emits[1].data = ExpectedData(blast.payload)
    /\ blast.emits[1].to = sessions

\* C9 (as claimed): every inbound message is broadcast as exactly one
\* mqtt_message event with its topic and its decoded or raw payload (here even
\* with an emit that never raises).
C9_Original == (blast.op = "on_message" /\ blast.emitOk) => OneMessageEvent

\* C9 (amended): so it is for a payload that is valid UTF-8, when the emit does
\* not raise; a payload that is not valid UTF-8 is broadcast to nobody.
C9_Utf8MessagesBroadcast ==
    blast.op = "on_message" =>
        /\ (Utf8Decode(blast.payload).ok /\ blast.emitOk) => OneMessageEvent
        /\ ~Utf8Decode(blast.payload).ok => blast.emits = <<>>
        /\ (blast.emits # <<>> /\ blast.payload = <<49, 49>>)
              => blast.emits[1].data = JsonNumber(11)
        /\ (blast.emits # <<>> /\ blast.payload = <<49, 120>>)
              => blast.emits[1].data = RawText(<<49, 120>>)
        /\ (blast.emits # <<>> /\ blast.payload = <<195, 169>>)
              => blast.emits[1].data = RawText(<<233>>)
        /\ blast.payload \in { <<169>>, <<195>>, <<195, 49>>, <<49, 169>> }
              => blast.emits = <<>>

C9_Witness ==
    /\ blast.op = "on_message"
    /\ blast.payload = <<49, 49>>
    /\ blast.emits = << MessageEvent(<<"ipnet", "n1", "status">>, JsonNumber(11),
                                      {"s1", "s2"}) >>

\* C10: every command mqtt_subscribe, mqtt_unsubscribe or mqtt_publish with a
\* topic is answered with exactly one result event {topic, success}, with
\* success = false when the link is not connected.
ResultName(op) ==
    IF op = "mqtt_subscribe" THEN "mqtt_subscribe_result"
    ELSE IF op = "mqtt_unsubscribe" THEN "mqtt_unsubscribe_result"
    ELSE "mqtt_publish_result"

C10_EveryCommandAnswered ==
    (blast.op \in {"mqtt_subscribe", "mqtt_unsubscribe", "mqtt_publish"}
        /\ blast.topic # NoTopic)
        => /\ Len(blast.emits) = 1
           /\ blast.emits[1].name = ResultName(blast.op)
           /\ blast.emits[1].topic = blast.topic
           /\ blast.emits[1].flag = blast.ret
           /\ ~blast.connectedBefore => blast.emits[1].flag = FALSE

CommandOps == {"mqtt_subscribe", "mqtt_unsubscribe", "mqtt_publish"}

\* C11: with two or more sessions connected, the result event of a command is
\* delivered to the session that issued it and to no other session.
C11_ResultToIssuerOnly ==
    (blast.op \in CommandOps /\ Cardinality(sessions) >= 2 /\ blast.emits # <<>>)
        => \A i \in 1..Len(blast.emits) : blast.emits[i].to = {blast.sid}

\* C12: when a session is established, one mqtt_status event with the current
\* is_connected is delivered to the new session and to no session that was
\* connected already.
C12_StatusToNewSessionOnly ==
    blast.op = "connect_session"
        => /\ Len(blast.emits) = 1
           /\ blast.emits[1].name = "mqtt_status"
           /\ blast.emits[1].flag = is_connected
           /\ blast.emits[1].to = {blast.sid}

\* C13: connect() never raises; without a broker host it returns false, creates
\* no client and starts no loop; when building or initiating the connection
\* throws it returns false; and after it returned, is_connected is false until
\* a connect callback with rc = 0 has run.
C13_ConnectFailsFast ==
    /\ blast.op = "connect"
          => /\ ~blast.raised
             /\ ~broker_host => (~blast.ret /\ client = "None" /\ ~loop)
             /\ blast.how # "ok" => ~blast.ret
             /\ blast.ret => (loop /\ client = "Client")
             /\ ~is_connected
    /\ (started /\ blast.lastCallback # "connack_ok") => ~is_connected

\* The TLS set-up or client.connect() threw after the client had been created.
C13_Witness ==
    /\ blast.op = "connect" /\ broker_host
    /\ blast.how = "raise"
    /\ ~blast.ret /\ client = "Client" /\ ~loop

\* C14: no exception of the processing of one inbound message leaves the
\* callback: the loop keeps running, is_connected is unchanged, and the message
\* after a failed one is processed and broadcast.
C14_MessageErrorsContained ==
    blast.op = "on_message"
        => /\ ~blast.raised
           /\ loop /\ blast.loopBefore
           /\ link = "up"
           /\ is_connected = blast.connectedBefore
           /\ (blast.prevFailed /\ Utf8Decode(blast.payload).ok /\ blast.emitOk)
                 => OneMessageEvent

\* A message that is broadcast right after one whose processing failed.
C14_Witness ==
    /\ blast.op = "on_message"
    /\ blast.prevFailed
    /\ Len(blast.emits) = 1
    /\ loop

C16_StateOnlyInCallbacks ==
    /\ (blast.op = "on_connect" /\ blast.rc = 0)
          => (is_connected /\ blast.emits = << StatusEvent(TRUE, 0, sessions) >>)
    /\ (blast.op = "on_connect" /\ blast.rc # 0)
          => (~is_connected /\ blast.emits = << StatusEvent(FALSE, blast.rc, sessions) >>)
    /\ blast.op = "on_disconnect"
          => (~is_connected /\ blast.emits = << StatusEvent(FALSE, 0, sessions) >>)
    /\ blast.op \notin {"on_connect", "on_disconnect"}
          => is_connected = blast.connectedBefore
    /\ is_connected <=> (blast.lastCallback = "connack_ok")

\* A refused reconnection after the link had been connected and lost.
C16_Witness ==
    /\ blast.op = "on_connect" /\ blast.rc = 5
    /\ blast.requestedBefore # {}
    /\ ~is_connected
    /\ blast.lastCallback = "connack_fail"

\* C17: disconnect() does nothing on a link that is not connected; on a
\* connected link it stops the loop and closes the connection, and once the
\* connection is closed is_connected is false and the disconnect callback has
\* broadcast mqtt_status {connected: false}.
C17_VoluntaryDisconnect ==
    /\ (blast.op = "disconnect" /\ ~blast.connectedBefore)
          => /\ ~blast.ret
             /\ loop = blast.loopBefore
             /\ is_connected = blast.connectedBefore
    /\ (blast.op = "disconnect" /\ blast.connectedBefore)
          => (blast.ret /\ ~loop /\ link \in {"closing", "closed"})
    /\ link = "closed" => (~is_connected /\ blast.lastCallback = "disconnect")

\* No callback and no new-session handler is between its read or write of
\* is_connected and its emit.
HandlersFinished == cb = <<>> /\ \A s \in Sessions : hc[s] = <<>>

\* C22: once all handlers have finished, the last mqtt_status event every
\* connected session received carries the current is_connected: a status read
\* by handle_connect before a callback is not delivered after the callback's
\* own status event.
C22_LastStatusIsCurrent ==
    HandlersFinished => \A s \in sessions : seen[s] = << is_connected >>

====
